---- MODULE Spec2Model ----
(***************************************************************************)
(* Request correlation and broadcast dispatch of the backend server        *)
(* (src/src/backend-server.ts): the pending-request table, the WebSocket   *)
(* client registry, the tool endpoints that dispatch a command and await   *)
(* its completion, the WebSocket message handler that routes completions,  *)
(* the per-request timers and the periodic cleanup of stale requests.      *)
(*                                                                         *)
(* Time is counted in ticks of 10 000 ms.  Node runs every callback to     *)
(* completion, so each handler is one atomic action; the continuation of   *)
(* an endpoint after its `await` is a step of its own (Respond), which     *)
(* Node runs before it takes the next event from its queue.  Timers fire   *)
(* when they are due: the clock does not pass a due timer.  What a step    *)
(* sends (WebSocket messages, an HTTP response) is held in wsOut and       *)
(* httpOut until the next step.                                            *)
(*                                                                         *)
(* Two more programs of the repository are modelled next to the backend,   *)
(* each with a specification of its own: the CallTool handler of the MCP   *)
(* client (src/src/mcp-client.ts), which forwards a tool call to the       *)
(* backend over HTTP, and the standalone MCP server (src/unnamed/part_000) *)
(* with its own registry, post store and message handler.                  *)
(***************************************************************************)
EXTENDS Integers, Sequences, FiniteSets, TLC

VARIABLES
    now,              \* the clock, in ticks of 10 s
    nextSweep,        \* when the cleanup interval fires next
    wsClients,        \* Set of registered WebSocket clients
    readyState,       \* each socket's readyState
    pendingRequests,  \* Map requestId -> PendingRequest (its type and data are stored but never read)
    timer,            \* the setTimeout handle of each request
    promise,          \* per endpoint invocation: the promise it awaits, and its closure
    calls,            \* per request: how many times its callback has been called
    postDataStore,    \* the stored posts
    nextId,           \* the number of the next endpoint invocation; uuidv4 gives its request this id
    wsOut,            \* the WebSocket messages the last step sent
    httpOut,          \* the HTTP response the last step sent
    mcpClient,        \* src/src/mcp-client.ts: the tool call its CallTool handler is working on
    standalone        \* src/unnamed/part_000: the standalone server's process, registry and posts

vars == <<now, nextSweep, wsClients, readyState, pendingRequests, timer, promise, calls,
          postDataStore, nextId, wsOut, httpOut, mcpClient, standalone>>

\* the variables of the backend server
backend == <<now, nextSweep, wsClients, readyState, pendingRequests, timer, promise, calls,
             postDataStore, nextId, wsOut, httpOut>>

----------------------------------------------------------------------------
(* Bounds of the model *)

MaxReq == 2
MaxClients == 2
MaxTime == 11

(* Program constants, in ticks of 10 000 ms *)

PostTimeout == 3
AlertTimeout == 1
DefaultExecTimeout == 3
CaptureTimeout == 1
NavigateTimeout == 3
StaleAge == 6
SweepInterval == 3

Ids == 1..MaxReq
Clients == 1..MaxClients

Kinds == {"new_post", "show_alert", "execute", "capture_dom", "capture_screenshot", "navigate"}

\* timeouts a caller of browser_execute may supply; 0 stands for none
ExecTimeouts == {0, 8, 12}

Undef == "undefined"

\* a value of a request body that is truthy and not a string, such as the number 123
NotAString == "123 (number)"

\* the required field of a request body (content, message, code, url): missing, a string,
\* or a value of another type (no endpoint checks the type)
Fields == {Undef, "hello", NotAString}

\* a JSON object, as far as the handlers read it: the keys success, error, result
Obj(s, e, r) == [success |-> s, error |-> e, result |-> r]

EmptyObj == Obj(Undef, Undef, Undef)

\* the payloads an extension may put in data.result
Payloads == {Obj(Undef, Undef, "r1"), Obj("false", "boom", "r2")}

Errors == {Undef, "boom"}

\* { ...a, ...b }: the keys of b override those of a
Spread(a, b) == [k \in DOMAIN a |-> IF b[k] # Undef THEN b[k] ELSE a[k]]

\* JavaScript truthiness of a value of the model
Truthy(v) == v \notin {Undef, "null", "false", ""}

NoMsg == [type |-> "none", requestId |-> 0, result |-> EmptyObj, error |-> Undef]

\* data.requestId of a message that has no requestId
NoId == -1

\* the messages an extension may send, after JSON.parse: completions and failures with
\* the id of a request, an id the table does not know (0) or no id; a message of an
\* unknown type ("test") or of no type (Undef); "unparseable" makes JSON.parse throw,
\* "null" parses to null, whose .type throws
Messages ==
    [type : {"request_complete"}, requestId : Ids, result : Payloads, error : {Undef}]
    \cup [type : {"request_failed"}, requestId : Ids, result : {EmptyObj}, error : Errors]
    \cup [type : {"request_complete"}, requestId : {0, NoId}, result : {Obj(Undef, Undef, "r1")}, error : {Undef}]
    \cup [type : {"request_failed"}, requestId : {0, NoId}, result : {EmptyObj}, error : {"boom"}]
    \cup [type : {"get_latest_post", "test", Undef, "unparseable", "null"}, requestId : {0}, result : {EmptyObj},
          error : {Undef}]

NoTimer == [state |-> "none", expiry |-> 0, error |-> Undef]

\* a promise: state none (no invocation yet), pending, settled (callback called, the
\* continuation not yet run) or done (the invocation has responded); shape and content
\* are what the continuation reads from the endpoint's closure
NoPromise == [state |-> "none", shape |-> "none", content |-> Undef, by |-> "none", msg |-> NoMsg, value |-> EmptyObj]

DonePromise == [NoPromise EXCEPT !.state = "done"]

\* no response; a key the body does not have is Undef, a count it does not have is -1
NoResponse == [id |-> 0, status |-> 0, success |-> Undef, error |-> Undef, result |-> Undef, message |-> Undef,
               by |-> "none", data |-> Undef, connectedClients |-> -1, pendingRequests |-> -1, totalPosts |-> -1]

NoPending == [id \in {} |-> 0]

\* what a CallTool handler has returned: nothing yet, a content item of type 'text',
\* or "thrown" when an exception left the handler
NoResult == [type |-> "none", text |-> Undef]

\* the body of an HTTP response of the backend, as far as the MCP client reads it
Body(s, e, r, m, d) == [success |-> s, error |-> e, result |-> r, message |-> m, data |-> d]

\* what `await fetch(...)` and `await response.json()` give: the fetch is rejected, the
\* body is no JSON, or a status and a parsed body
Reply(transport, status, body) == [transport |-> transport, status |-> status, body |-> body]

NoReply == Reply("none", 0, Body(Undef, Undef, Undef, Undef, Undef))

\* the MCP client with no tool call in progress
NoCall == [pc |-> "idle", name |-> Undef, status |-> Undef, fetched |-> {}, response |-> NoReply, result |-> NoResult]

\* the standalone server after main(): running, no client, no post
Started ==
    [running |-> TRUE, wsClients |-> {}, readyState |-> [c \in Clients |-> "CLOSED"], postDataStore |-> <<>>,
     escaped |-> Undef, sent |-> {}, result |-> NoResult]

----------------------------------------------------------------------------
(* Helpers *)

\* Map.delete forgotten
MapDeleteForgotten(m, id) == m

\* Map.delete
MapDelete(m, id) == [k \in DOMAIN m \ {id} |-> m[k]]

\* Map.set
MapSet(m, id, v) == [k \in DOMAIN m \cup {id} |-> IF k = id THEN v ELSE m[k]]

\* clearTimeout forgotten
ClearTimeoutForgotten(t, id) == t

\* clearTimeout(pending.timeout)
ClearTimeout(t, id) == [t EXCEPT ![id] = NoTimer]

\* pending.callback(value), the resolve function of the endpoint's promise: the first
\* call settles the promise, a later call changes nothing
Callback(p, id, by, msg, value) ==
    IF p[id].state = "pending"
    THEN [p EXCEPT ![id].state = "settled", ![id].by = by, ![id].msg = msg, ![id].value = value]
    ELSE p

\* one timeout of 30 s for every kind
TimeoutOfFlat(kind, t) == DefaultExecTimeout

\* the timeout of a request of the given kind; t is what the caller of execute supplied
TimeoutOf(kind, t) ==
    CASE kind = "new_post" -> PostTimeout
      [] kind = "show_alert" -> AlertTimeout
      [] kind = "execute" -> IF t # 0 THEN t ELSE DefaultExecTimeout
      [] kind = "capture_dom" -> CaptureTimeout
      [] kind = "capture_screenshot" -> CaptureTimeout
      [] kind = "navigate" -> NavigateTimeout

\* the error text of the timer's outcome
TimeoutError(kind, t) ==
    CASE kind \in {"new_post", "navigate"} -> "Request timed out after 30 seconds"
      [] kind \in {"show_alert", "capture_dom", "capture_screenshot"} -> "Request timed out after 10 seconds"
      [] kind = "execute" /\ TimeoutOf(kind, t) = 3 -> "Request timed out after 30000ms"
      [] kind = "execute" /\ TimeoutOf(kind, t) = 8 -> "Request timed out after 80000ms"
      [] kind = "execute" /\ TimeoutOf(kind, t) = 12 -> "Request timed out after 120000ms"
      [] OTHER -> "Request timed out after <timeoutMs>ms"

\* what an endpoint answers on success: { success, result: result.result } or { success, message }
ResponseShape(kind) == IF kind \in {"execute", "capture_dom", "capture_screenshot"} THEN "result" ELSE "message"

\* no endpoint checks its body
RequiresFieldNever(kind) == FALSE

\* the endpoints that check a required field of the body
RequiresField(kind) == kind \in {"new_post", "show_alert", "execute", "navigate"}

\* a broadcast that sends to every registered client, whatever its readyState
OpenClientsAll == wsClients

\* the clients broadcastToClients sends to
OpenClients == {c \in wsClients : readyState[c] = "OPEN"}

\* broadcastToClients({ ...request, requestId })
Broadcast(kind, id) == {[to |-> c, type |-> kind, requestId |-> id, data |-> Undef] : c \in OpenClients}

\* the client check skipped
NoClientsSkipped == FALSE

\* wsClients.size === 0
NoClients == Cardinality(wsClients) = 0

\* no promise continuation is waiting to run
NoMicrotask == \A id \in Ids : promise[id].state # "settled"

\* res.status(status).json({ error })
Rejection(id, status, error) == [NoResponse EXCEPT !.id = id, !.status = status, !.error = error]

----------------------------------------------------------------------------
Init ==
    /\ now = 0
    /\ nextSweep = SweepInterval
    /\ wsClients = {}
    /\ readyState = [c \in Clients |-> "CLOSED"]
    /\ pendingRequests = NoPending
    /\ timer = [id \in Ids |-> NoTimer]
    /\ promise = [id \in Ids |-> NoPromise]
    /\ calls = [id \in Ids |-> 0]
    /\ postDataStore = <<>>
    /\ nextId = 1
    /\ wsOut = {}
    /\ httpOut = NoResponse
    /\ mcpClient = NoCall
    /\ standalone = Started

\* a connection handler that sends the new client the commands still pending
ConnectReplays(c) ==
    /\ NoMicrotask
    /\ readyState[c] = "CLOSED"
    /\ c \notin wsClients
    /\ readyState' = [readyState EXCEPT ![c] = "OPEN"]
    /\ wsClients' = wsClients \cup {c}
    /\ wsOut' = {[to |-> c, type |-> "execute", requestId |-> id, data |-> Undef] : id \in DOMAIN pendingRequests}
    /\ httpOut' = NoResponse
    /\ UNCHANGED <<now, nextSweep, pendingRequests, timer, promise, calls, postDataStore, nextId>>
    /\ UNCHANGED <<mcpClient, standalone>>

\* wss.on('connection')
Connect(c) ==
    /\ NoMicrotask
    /\ readyState[c] = "CLOSED"
    /\ c \notin wsClients
    /\ readyState' = [readyState EXCEPT ![c] = "OPEN"]
    /\ wsClients' = wsClients \cup {c}
    /\ wsOut' = {}
    /\ httpOut' = NoResponse
    /\ UNCHANGED <<now, nextSweep, pendingRequests, timer, promise, calls, postDataStore, nextId>>
    /\ UNCHANGED <<mcpClient, standalone>>

\* the socket starts its closing handshake: readyState is no longer OPEN, no event yet
BeginClose(c) ==
    /\ NoMicrotask
    /\ readyState[c] = "OPEN"
    /\ readyState' = [readyState EXCEPT ![c] = "CLOSING"]
    /\ wsOut' = {}
    /\ httpOut' = NoResponse
    /\ UNCHANGED <<now, nextSweep, wsClients, pendingRequests, timer, promise, calls, postDataStore, nextId>>
    /\ UNCHANGED <<mcpClient, standalone>>

\* a close handler that drops the pending requests when the last client leaves
OnCloseCancels(c) ==
    /\ NoMicrotask
    /\ readyState[c] \in {"OPEN", "CLOSING"}
    /\ readyState' = [readyState EXCEPT ![c] = "CLOSED"]
    /\ wsClients' = wsClients \ {c}
    /\ pendingRequests' = IF wsClients' = {} THEN NoPending ELSE pendingRequests
    /\ wsOut' = {}
    /\ httpOut' = NoResponse
    /\ UNCHANGED <<now, nextSweep, timer, promise, calls, postDataStore, nextId>>
    /\ UNCHANGED <<mcpClient, standalone>>

\* ws.on('close')
OnClose(c) ==
    /\ NoMicrotask
    /\ readyState[c] \in {"OPEN", "CLOSING"}
    /\ readyState' = [readyState EXCEPT ![c] = "CLOSED"]
    /\ wsClients' = wsClients \ {c}
    /\ wsOut' = {}
    /\ httpOut' = NoResponse
    /\ UNCHANGED <<now, nextSweep, pendingRequests, timer, promise, calls, postDataStore, nextId>>
    /\ UNCHANGED <<mcpClient, standalone>>

\* ws.on('error'): the handler logs and nothing else; the socket that reported the
\* error is closing, and its close event comes later
OnError(c) ==
    /\ NoMicrotask
    /\ readyState[c] \in {"OPEN", "CLOSING"}
    /\ readyState' = [readyState EXCEPT ![c] = "CLOSING"]
    /\ wsOut' = {}
    /\ httpOut' = NoResponse
    /\ UNCHANGED <<now, nextSweep, wsClients, pendingRequests, timer, promise, calls, postDataStore, nextId>>
    /\ UNCHANGED <<mcpClient, standalone>>

\* a status endpoint that counts the open sockets only
StatusCountsOpen ==
    /\ NoMicrotask
    /\ httpOut' = [NoResponse EXCEPT !.status = 200, !.connectedClients = Cardinality(OpenClients),
                                     !.pendingRequests = Cardinality(DOMAIN pendingRequests),
                                     !.totalPosts = Len(postDataStore)]
    /\ wsOut' = {}
    /\ UNCHANGED <<now, nextSweep, wsClients, readyState, pendingRequests, timer, promise, calls, postDataStore, nextId>>
    /\ UNCHANGED <<mcpClient, standalone>>

\* GET /api/status
Status ==
    /\ NoMicrotask
    /\ httpOut' = [NoResponse EXCEPT !.status = 200, !.connectedClients = Cardinality(wsClients),
                                     !.pendingRequests = Cardinality(DOMAIN pendingRequests),
                                     !.totalPosts = Len(postDataStore)]
    /\ wsOut' = {}
    /\ UNCHANGED <<now, nextSweep, wsClients, readyState, pendingRequests, timer, promise, calls, postDataStore, nextId>>
    /\ UNCHANGED <<mcpClient, standalone>>

\* the oldest post instead of the latest
FirstPost == IF Len(postDataStore) > 0 THEN postDataStore[1] ELSE "null"

\* postDataStore[postDataStore.length - 1] || null
LatestPost == IF Len(postDataStore) > 0 THEN postDataStore[Len(postDataStore)] ELSE "null"

\* the longest a request can stay unresolved, whatever its timeout: until the cleanup
\* that finds it older than StaleAge, which runs at most SweepInterval later; a
\* request is taken while the clock of the model can still reach that time
Horizon == StaleAge + SweepInterval

\* GET /api/tools/get_post_data
GetPostData ==
    /\ NoMicrotask
    /\ httpOut' = [NoResponse EXCEPT !.status = 200, !.data = LatestPost]
    /\ wsOut' = {}
    /\ UNCHANGED <<now, nextSweep, wsClients, readyState, pendingRequests, timer, promise, calls, postDataStore, nextId>>
    /\ UNCHANGED <<mcpClient, standalone>>

\* a tool endpoint up to its `await`: validation, the client check, then the promise
\* executor (setTimeout, pendingRequests.set, broadcastToClients)
Dispatch(kind, field, t) ==
    /\ NoMicrotask
    /\ nextId <= MaxReq
    /\ now + Horizon <= MaxTime
    /\ nextId' = nextId + 1
    /\ IF RequiresField(kind) /\ ~Truthy(field)
       THEN /\ httpOut' = Rejection(nextId, 400, "required")
            /\ promise' = [promise EXCEPT ![nextId] = DonePromise]
            /\ wsOut' = {}
            /\ UNCHANGED <<pendingRequests, timer, postDataStore>>
       ELSE IF NoClients
       THEN /\ httpOut' = Rejection(nextId, 503, "No browser extension connected")
            /\ promise' = [promise EXCEPT ![nextId] = DonePromise]
            /\ wsOut' = {}
            /\ UNCHANGED <<pendingRequests, timer, postDataStore>>
       ELSE /\ postDataStore' = IF kind = "new_post" THEN Append(postDataStore, field) ELSE postDataStore
            /\ promise' = [promise EXCEPT ![nextId] = [NoPromise EXCEPT !.state = "pending", !.shape = ResponseShape(kind),
                                                                          !.content = IF kind = "new_post" THEN field ELSE Undef]]
            /\ timer' = [timer EXCEPT ![nextId] = [state |-> "armed", expiry |-> now + TimeoutOf(kind, t),
                                                   error |-> TimeoutError(kind, t)]]
            /\ pendingRequests' = MapSet(pendingRequests, nextId, [timestamp |-> now])
            /\ wsOut' = Broadcast(kind, nextId)
            /\ httpOut' = NoResponse
    /\ UNCHANGED <<now, nextSweep, wsClients, readyState, calls>>
    /\ UNCHANGED <<mcpClient, standalone>>

\* a timer callback that takes the post of a timed-out create-post out of the store
OnTimeoutRollsBack(id) ==
    /\ NoMicrotask
    /\ timer[id].state = "armed"
    /\ timer[id].expiry <= now
    /\ timer' = [timer EXCEPT ![id] = NoTimer]
    /\ pendingRequests' = MapDelete(pendingRequests, id)
    /\ promise' = Callback(promise, id, "timer", NoMsg, Obj("false", timer[id].error, Undef))
    /\ calls' = [calls EXCEPT ![id] = @ + 1]
    /\ postDataStore' = IF promise[id].content # Undef /\ Len(postDataStore) > 0
                        THEN SubSeq(postDataStore, 1, Len(postDataStore) - 1)
                        ELSE postDataStore
    /\ wsOut' = {}
    /\ httpOut' = NoResponse
    /\ UNCHANGED <<now, nextSweep, wsClients, readyState, nextId>>
    /\ UNCHANGED <<mcpClient, standalone>>

\* the callback of a request's setTimeout
OnTimeout(id) ==
    /\ NoMicrotask
    /\ timer[id].state = "armed"
    /\ timer[id].expiry <= now
    /\ timer' = [timer EXCEPT ![id] = NoTimer]
    /\ pendingRequests' = MapDelete(pendingRequests, id)
    /\ promise' = Callback(promise, id, "timer", NoMsg, Obj("false", timer[id].error, Undef))
    /\ calls' = [calls EXCEPT ![id] = @ + 1]
    /\ wsOut' = {}
    /\ httpOut' = NoResponse
    /\ UNCHANGED <<now, nextSweep, wsClients, readyState, postDataStore, nextId>>
    /\ UNCHANGED <<mcpClient, standalone>>

\* the request_complete branch without its `if (pending)`
OnCompleteUnchecked(data) ==
    IF data.requestId \in Ids
    THEN /\ timer' = ClearTimeout(timer, data.requestId)
         /\ promise' = Callback(promise, data.requestId, "request_complete", data,
                                Spread(Obj("true", Undef, Undef), data.result))
         /\ calls' = [calls EXCEPT ![data.requestId] = @ + 1]
         /\ pendingRequests' = MapDelete(pendingRequests, data.requestId)
    ELSE UNCHANGED <<timer, promise, calls, pendingRequests>>

\* a request_complete branch that resolves the oldest pending request, whatever the id
OnCompleteOldest(data) ==
    IF data.requestId \in DOMAIN pendingRequests
    THEN LET oldest == CHOOSE i \in DOMAIN pendingRequests : \A k \in DOMAIN pendingRequests : i <= k
         IN /\ timer' = ClearTimeout(timer, oldest)
            /\ promise' = Callback(promise, oldest, "request_complete", data,
                                   Spread(Obj("true", Undef, Undef), data.result))
            /\ calls' = [calls EXCEPT ![oldest] = @ + 1]
            /\ pendingRequests' = MapDelete(pendingRequests, oldest)
    ELSE UNCHANGED <<timer, promise, calls, pendingRequests>>

\* ws.on('message'), the request_complete branch
OnComplete(data) ==
    IF data.requestId \in DOMAIN pendingRequests
    THEN /\ timer' = ClearTimeout(timer, data.requestId)
         /\ promise' = Callback(promise, data.requestId, "request_complete", data,
                                Spread(Obj("true", Undef, Undef), data.result))
         /\ calls' = [calls EXCEPT ![data.requestId] = @ + 1]
         /\ pendingRequests' = MapDelete(pendingRequests, data.requestId)
    ELSE UNCHANGED <<timer, promise, calls, pendingRequests>>

\* the request_failed branch with an error text of its own
OnFailedGeneric(data) ==
    IF data.requestId \in DOMAIN pendingRequests
    THEN /\ timer' = ClearTimeout(timer, data.requestId)
         /\ promise' = Callback(promise, data.requestId, "request_failed", data,
                                Obj("false", "Request failed", Undef))
         /\ calls' = [calls EXCEPT ![data.requestId] = @ + 1]
         /\ pendingRequests' = MapDelete(pendingRequests, data.requestId)
    ELSE UNCHANGED <<timer, promise, calls, pendingRequests>>

\* a request_failed branch that settles the request again when it is no longer pending
OnFailedOverrides(data) ==
    IF data.requestId \in Ids /\ promise[data.requestId].state \in {"pending", "done"}
    THEN /\ timer' = ClearTimeout(timer, data.requestId)
         /\ promise' = [promise EXCEPT ![data.requestId].state = "settled", ![data.requestId].by = "request_failed",
                                       ![data.requestId].msg = data,
                                       ![data.requestId].value = Obj("false", data.error, Undef)]
         /\ calls' = [calls EXCEPT ![data.requestId] = @ + 1]
         /\ pendingRequests' = MapDelete(pendingRequests, data.requestId)
    ELSE UNCHANGED <<timer, promise, calls, pendingRequests>>

\* ws.on('message'), the request_failed branch
OnFailed(data) ==
    IF data.requestId \in DOMAIN pendingRequests
    THEN /\ timer' = ClearTimeout(timer, data.requestId)
         /\ promise' = Callback(promise, data.requestId, "request_failed", data,
                                Obj("false", data.error, Undef))
         /\ calls' = [calls EXCEPT ![data.requestId] = @ + 1]
         /\ pendingRequests' = MapDelete(pendingRequests, data.requestId)
    ELSE UNCHANGED <<timer, promise, calls, pendingRequests>>

\* the message makes the handler throw: JSON.parse of a text that is no JSON, or
\* data.type of null
Throws(data) == data.type \in {"unparseable", "null"}

\* a message handler without its try/catch: the exception is uncaught and ends the
\* process, and with it the registry, the table and the timers
OnMessageUncaught(c, data) ==
    /\ NoMicrotask
    /\ readyState[c] \in {"OPEN", "CLOSING"}
    /\ CASE Throws(data) ->
              /\ wsClients' = {}
              /\ readyState' = [k \in Clients |-> "CLOSED"]
              /\ pendingRequests' = NoPending
              /\ timer' = [id \in Ids |-> NoTimer]
              /\ UNCHANGED <<promise, calls>>
         [] data.type = "request_complete" ->
              /\ OnComplete(data)
              /\ UNCHANGED <<wsClients, readyState>>
         [] data.type = "request_failed" ->
              /\ OnFailed(data)
              /\ UNCHANGED <<wsClients, readyState>>
         [] OTHER ->
              UNCHANGED <<timer, promise, calls, pendingRequests, wsClients, readyState>>
    /\ wsOut' = {}
    /\ httpOut' = NoResponse
    /\ UNCHANGED <<now, nextSweep, postDataStore, nextId>>
    /\ UNCHANGED <<mcpClient, standalone>>

\* ws.on('message')
OnMessage(c, data) ==
    /\ NoMicrotask
    /\ readyState[c] \in {"OPEN", "CLOSING"}
    /\ CASE Throws(data) ->
              /\ wsOut' = {}
              /\ UNCHANGED <<timer, promise, calls, pendingRequests>>
         [] data.type = "request_complete" ->
              /\ OnComplete(data)
              /\ wsOut' = {}
         [] data.type = "request_failed" ->
              /\ OnFailed(data)
              /\ wsOut' = {}
         [] data.type = "get_latest_post" ->
              /\ wsOut' = IF readyState[c] = "OPEN"
                          THEN {[to |-> c, type |-> "post_data", requestId |-> 0, data |-> LatestPost]}
                          ELSE {}
              /\ UNCHANGED <<timer, promise, calls, pendingRequests>>
         [] OTHER ->
              /\ wsOut' = {}
              /\ UNCHANGED <<timer, promise, calls, pendingRequests>>
    /\ httpOut' = NoResponse
    /\ UNCHANGED <<now, nextSweep, wsClients, readyState, postDataStore, nextId>>
    /\ UNCHANGED <<mcpClient, standalone>>

\* a cleanup that finds nothing stale
StaleNever == {}

\* a cleanup that waits one interval longer
StaleLate == {id \in DOMAIN pendingRequests : now - pendingRequests[id].timestamp > StaleAge + SweepInterval}

\* the entries the cleanup finds stale
Stale == {id \in DOMAIN pendingRequests : now - pendingRequests[id].timestamp > StaleAge}

\* a cleanup that does not clear the timers of the requests it expires
CleanupKeepsTimers ==
    /\ NoMicrotask
    /\ nextSweep <= now
    /\ nextSweep' = now + SweepInterval
    /\ promise' = [id \in Ids |-> IF id \in Stale
                                    THEN Callback(promise, id, "reaper", NoMsg, Obj("false", "Request expired", Undef))[id]
                                    ELSE promise[id]]
    /\ calls' = [id \in Ids |-> IF id \in Stale THEN calls[id] + 1 ELSE calls[id]]
    /\ pendingRequests' = [id \in DOMAIN pendingRequests \ Stale |-> pendingRequests[id]]
    /\ wsOut' = {}
    /\ httpOut' = NoResponse
    /\ UNCHANGED <<now, timer, wsClients, readyState, postDataStore, nextId>>
    /\ UNCHANGED <<mcpClient, standalone>>

\* the setInterval callback that cleans up stale requests
Cleanup ==
    /\ NoMicrotask
    /\ nextSweep <= now
    /\ nextSweep' = now + SweepInterval
    /\ timer' = [id \in Ids |-> IF id \in Stale THEN ClearTimeout(timer, id)[id] ELSE timer[id]]
    /\ promise' = [id \in Ids |-> IF id \in Stale
                                    THEN Callback(promise, id, "reaper", NoMsg, Obj("false", "Request expired", Undef))[id]
                                    ELSE promise[id]]
    /\ calls' = [id \in Ids |-> IF id \in Stale THEN calls[id] + 1 ELSE calls[id]]
    /\ pendingRequests' = [id \in DOMAIN pendingRequests \ Stale |-> pendingRequests[id]]
    /\ wsOut' = {}
    /\ httpOut' = NoResponse
    /\ UNCHANGED <<now, wsClients, readyState, postDataStore, nextId>>
    /\ UNCHANGED <<mcpClient, standalone>>

\* no catch block: the exception leaves the handler and no response is sent
CaughtEscapes(id, p, error) == NoResponse

\* the endpoint's catch block: res.status(500).json({ error: error.message })
Caught(id, p, error) == [NoResponse EXCEPT !.id = id, !.status = 500, !.error = error, !.by = p.by]

\* the response an endpoint sends once its promise is settled; create_linkedin_post
\* builds its message with content.substring, which throws when content is no string
ResponseOf(id, p) ==
    IF Truthy(p.value.success)
    THEN IF p.shape = "result"
         THEN [NoResponse EXCEPT !.id = id, !.status = 200, !.success = "true", !.result = p.value.result, !.by = p.by]
         ELSE IF p.content = NotAString
         THEN Caught(id, p, "content.substring is not a function")
         ELSE [NoResponse EXCEPT !.id = id, !.status = 200, !.success = "true", !.message = "message", !.by = p.by]
    ELSE [NoResponse EXCEPT !.id = id, !.status = 500, !.success = "false", !.error = p.value.error, !.by = p.by]

\* the continuation of an endpoint after its `await`
Respond(id) ==
    /\ promise[id].state = "settled"
    /\ httpOut' = ResponseOf(id, promise[id])
    /\ promise' = [promise EXCEPT ![id] = DonePromise]
    /\ wsOut' = {}
    /\ UNCHANGED <<now, nextSweep, wsClients, readyState, pendingRequests, timer, calls, postDataStore, nextId>>
    /\ UNCHANGED <<mcpClient, standalone>>

\* a clock that stands still
TickStandsStill ==
    /\ NoMicrotask
    /\ now < MaxTime
    /\ now' = now
    /\ wsOut' = {}
    /\ httpOut' = NoResponse
    /\ UNCHANGED <<nextSweep, wsClients, readyState, pendingRequests, timer, promise, calls, postDataStore, nextId>>
    /\ UNCHANGED <<mcpClient, standalone>>

\* time passes; due timers and promise continuations run first
Tick ==
    /\ NoMicrotask
    /\ now < MaxTime
    /\ nextSweep > now
    /\ \A id \in Ids : timer[id].state = "armed" => timer[id].expiry > now
    /\ now' = now + 1
    /\ wsOut' = {}
    /\ httpOut' = NoResponse
    /\ UNCHANGED <<nextSweep, wsClients, readyState, pendingRequests, timer, promise, calls, postDataStore, nextId>>
    /\ UNCHANGED <<mcpClient, standalone>>

Next ==
    \/ \E c \in Clients : Connect(c)
    \/ \E c \in Clients : BeginClose(c)
    \/ \E c \in Clients : OnClose(c)
    \/ \E c \in Clients : OnError(c)
    \/ Status
    \/ GetPostData
    \/ \E kind \in Kinds, field \in Fields, t \in ExecTimeouts : Dispatch(kind, field, t)
    \/ \E c \in Clients, data \in Messages : OnMessage(c, data)
    \/ \E id \in Ids : OnTimeout(id)
    \/ \E id \in Ids : Respond(id)
    \/ Cleanup
    \/ Tick

Spec == Init /\ [][Next]_vars

\* timers, the cleanup interval and promise continuations always run; time goes on
LiveSpec ==
    /\ Spec
    /\ WF_vars(Tick)
    /\ WF_vars(Cleanup)
    /\ \A id \in Ids : WF_vars(OnTimeout(id))
    /\ \A id \in Ids : WF_vars(Respond(id))

----------------------------------------------------------------------------
(* The MCP client (src/src/mcp-client.ts): its CallTool handler.  The handler *)
(* awaits the backend twice, so a call is three steps: CallTool up to the     *)
(* fetch of /api/status, StatusReply up to the fetch of the tool's endpoint   *)
(* or to the return, ToolReply from the backend's answer to the return.       *)

\* the tools of the switch
Tools ==
    {"browser_execute", "browser_capture_dom", "browser_capture_screenshot", "browser_navigate",
     "create_linkedin_post", "get_post_data", "show_linkedin_alert"}

\* the names a tool call may carry: a tool of the switch, or another name
ToolNames == Tools \cup {"unknown_tool"}

\* the tools whose success is answered with JSON.stringify(result.result, null, 2)
ResultTools == {"browser_execute", "browser_capture_dom", "browser_capture_screenshot"}

\* what happens to checkBackend's fetch of /api/status: answered 2xx with a JSON body,
\* answered with another status, rejected, or answered 2xx with a body that is no JSON
StatusOutcomes == {"ok", "not_ok", "rejected", "not_json"}

\* checkBackend(): true only when the fetch is answered 2xx and the body parses
CheckBackend(outcome) == outcome = "ok"

\* response.ok
Ok(status) == status \in 200..299

\* JSON.stringify(value, null, 2): undefined for undefined, a text otherwise
JsonStringify(v) == IF v = Undef THEN Undef ELSE IF v = "null" THEN "null" ELSE "\"" \o v \o "\""

\* { content: [{ type: 'text', text }] }
Text(t) == [type |-> "text", text |-> t]

CannotConnect ==
    "Error: Cannot connect to backend server. Please ensure the LinkedIn MCP backend is running on port 3636."

\* `${BACKEND_URL}/api/tools/${name}`
Endpoint(name) == "/api/tools/" \o name

\* the text after "Error: " when the backend's body has no error
Fallback(name) ==
    CASE name = "browser_execute" -> "Failed to execute browser code"
      [] name = "browser_capture_dom" -> "Failed to capture DOM"
      [] name = "browser_capture_screenshot" -> "Failed to capture screenshot"
      [] name = "browser_navigate" -> "Failed to navigate"
      [] name = "create_linkedin_post" -> "Failed to create post"
      [] name = "show_linkedin_alert" -> "Failed to show alert"
      [] OTHER -> Undef

\* the text of the handler's catch block
CaughtText(name, message) == "Error executing " \o name \o ": " \o message

\* the fetch is rejected, or the body is no JSON
FetchFailures ==
    {Reply("rejected", 0, NoReply.body), Reply("not_json", 200, NoReply.body)}

\* what the backend's endpoint of a tool can answer (backend-server.ts): get_post_data
\* the latest post or null; the others 503 without a client, 400 without the required
\* field, 500 { success: false, error } on failure, timeout and expiry, 500 { error }
\* from the catch block of create_linkedin_post, and on success { success, message }
\* or { success, result }, where result is absent when the completion carried none
RepliesOf(name) ==
    FetchFailures
    \cup IF name = "get_post_data"
         THEN {Reply("ok", 200, Body(Undef, Undef, Undef, Undef, d)) : d \in {"hello", NotAString, "null"}}
         ELSE {Reply("ok", 503, Body(Undef, "No browser extension connected", Undef, Undef, Undef))}
              \cup {Reply("ok", 500, Body("false", e, Undef, Undef, Undef)) : e \in {"boom", "Request expired", "Request timed out after 30 seconds", Undef}}
              \cup (IF name \in ResultTools
                    THEN {Reply("ok", 200, Body("true", Undef, r, Undef, Undef)) : r \in {"r1", "r2", Undef}}
                    ELSE {Reply("ok", 200, Body("true", Undef, Undef, "message", Undef))})
              \cup (IF name \in {"browser_execute", "browser_navigate", "create_linkedin_post", "show_linkedin_alert"}
                    THEN {Reply("ok", 400, Body(Undef, "required", Undef, Undef, Undef))}
                    ELSE {})
              \cup (IF name = "create_linkedin_post"
                    THEN {Reply("ok", 500, Body(Undef, "content.substring is not a function", Undef, Undef, Undef))}
                    ELSE {})

Replies == UNION {RepliesOf(name) : name \in Tools}

\* what the case of a tool returns once its fetch is answered
ToolResult(name, r) ==
    IF r.transport = "rejected" THEN Text(CaughtText(name, "fetch failed"))
    ELSE IF r.transport = "not_json" THEN Text(CaughtText(name, "Unexpected token < in JSON at position 0"))
    ELSE IF name = "get_post_data"
    THEN IF ~Truthy(r.body.data) THEN Text("No posts available") ELSE Text(JsonStringify(r.body.data))
    ELSE IF Ok(r.status) /\ Truthy(r.body.success)
    THEN Text(IF name \in ResultTools THEN JsonStringify(r.body.result) ELSE r.body.message)
    ELSE Text("Error: " \o (IF Truthy(r.body.error) THEN r.body.error ELSE Fallback(name)))

\* the handler is called and runs up to the fetch of checkBackend
CallTool(name) ==
    /\ mcpClient.pc = "idle"
    /\ mcpClient' = [NoCall EXCEPT !.pc = "checking", !.name = name, !.fetched = {"/api/status"}]
    /\ UNCHANGED <<backend, standalone>>

\* checkBackend returns: the cannot-connect answer, or into the switch, where an
\* unknown name throws into the catch block and a tool fetches its endpoint
StatusReply(outcome) ==
    /\ mcpClient.pc = "checking"
    /\ mcpClient' =
          IF ~CheckBackend(outcome)
          THEN [mcpClient EXCEPT !.pc = "returned", !.status = outcome, !.result = Text(CannotConnect)]
          ELSE IF mcpClient.name \notin Tools
          THEN [mcpClient EXCEPT !.pc = "returned", !.status = outcome,
                                 !.result = Text(CaughtText(mcpClient.name, "Unknown tool: " \o mcpClient.name))]
          ELSE [mcpClient EXCEPT !.pc = "calling", !.status = outcome,
                                 !.fetched = @ \cup {Endpoint(mcpClient.name)}]
    /\ UNCHANGED <<backend, standalone>>

\* the tool's fetch is answered and the handler returns
ToolReply(r) ==
    /\ mcpClient.pc = "calling"
    /\ r \in RepliesOf(mcpClient.name)
    /\ mcpClient' = [mcpClient EXCEPT !.pc = "returned", !.response = r, !.result = ToolResult(mcpClient.name, r)]
    /\ UNCHANGED <<backend, standalone>>

\* the result is handed to the MCP server; the handler is free for the next call
Return ==
    /\ mcpClient.pc = "returned"
    /\ mcpClient' = NoCall
    /\ UNCHANGED <<backend, standalone>>

ClientNext ==
    \/ \E name \in ToolNames : CallTool(name)
    \/ \E outcome \in StatusOutcomes : StatusReply(outcome)
    \/ \E r \in Replies : ToolReply(r)
    \/ Return

ClientSpec == Init /\ [][ClientNext]_vars

----------------------------------------------------------------------------
(* The standalone MCP server (src/unnamed/part_000): its registry of WebSocket *)
(* clients, its post store, its two tools and its WebSocket message handler.   *)
(* An exception thrown by an event listener is caught by nobody: Node reports  *)
(* it as uncaught and ends the process, and the registry and the store, which  *)
(* live in its memory, end with it.                                            *)

\* how many posts the standalone server stores in the model
MaxPosts == 2

\* the registered clients whose socket is OPEN
StandaloneOpen == {c \in standalone.wsClients : standalone.readyState[c] = "OPEN"}

\* wss.on('connection')
StandaloneConnect(c) ==
    /\ standalone.running
    /\ standalone.readyState[c] = "CLOSED"
    /\ standalone' = [standalone EXCEPT !.wsClients = @ \cup {c}, !.readyState[c] = "OPEN",
                                        !.sent = {}, !.result = NoResult]
    /\ UNCHANGED <<backend, mcpClient>>

\* a socket starts its closing handshake
StandaloneBeginClose(c) ==
    /\ standalone.running
    /\ standalone.readyState[c] = "OPEN"
    /\ standalone' = [standalone EXCEPT !.readyState[c] = "CLOSING", !.sent = {}, !.result = NoResult]
    /\ UNCHANGED <<backend, mcpClient>>

\* ws.on('close')
StandaloneClose(c) ==
    /\ standalone.running
    /\ standalone.readyState[c] \in {"OPEN", "CLOSING"}
    /\ standalone' = [standalone EXCEPT !.wsClients = @ \ {c}, !.readyState[c] = "CLOSED",
                                        !.sent = {}, !.result = NoResult]
    /\ UNCHANGED <<backend, mcpClient>>

\* the tool create_linkedin_post: content.length throws when content is missing;
\* otherwise the post is stored and broadcast, and then content.substring throws
\* when content is no string.  The handler is async: what it throws rejects its
\* promise and goes to the MCP server, not to the process
StandaloneCreatePost(content) ==
    /\ standalone.running
    /\ Len(standalone.postDataStore) < MaxPosts
    /\ standalone' =
          IF content = Undef
          THEN [standalone EXCEPT !.sent = {}, !.result = [type |-> "thrown", text |-> "TypeError"]]
          ELSE [standalone EXCEPT
                   !.postDataStore = Append(@, content),
                   !.sent = {[to |-> c, type |-> "new_post", data |-> content] : c \in StandaloneOpen},
                   !.result = IF content = NotAString
                              THEN [type |-> "thrown", text |-> "TypeError"]
                              ELSE Text("LinkedIn post created")]
    /\ UNCHANGED <<backend, mcpClient>>

\* the tool get_post_data
StandaloneGetPostData ==
    /\ standalone.running
    /\ standalone' =
          [standalone EXCEPT
              !.sent = {},
              !.result = IF standalone.postDataStore = <<>>
                         THEN Text("No posts available")
                         ELSE Text(JsonStringify(standalone.postDataStore[Len(standalone.postDataStore)]))]
    /\ UNCHANGED <<backend, mcpClient>>

\* ws.on('message'): JSON.parse and data.type outside any try/catch
StandaloneMessage(c, data) ==
    /\ standalone.running
    /\ standalone.readyState[c] \in {"OPEN", "CLOSING"}
    /\ standalone' =
          IF Throws(data)
          THEN [Started EXCEPT !.running = FALSE,
                               !.escaped = IF data.type = "unparseable" THEN "SyntaxError" ELSE "TypeError"]
          ELSE IF data.type = "get_latest_post"
          THEN [standalone EXCEPT
                   !.sent = IF standalone.readyState[c] = "OPEN"
                            THEN {[to |-> c, type |-> "post_data",
                                   data |-> IF standalone.postDataStore = <<>> THEN "null"
                                            ELSE standalone.postDataStore[Len(standalone.postDataStore)]]}
                            ELSE {},
                   !.result = NoResult]
          ELSE [standalone EXCEPT !.sent = {}, !.result = NoResult]
    /\ UNCHANGED <<backend, mcpClient>>

StandaloneNext ==
    \/ \E c \in Clients : StandaloneConnect(c)
    \/ \E c \in Clients : StandaloneBeginClose(c)
    \/ \E c \in Clients : StandaloneClose(c)
    \/ \E content \in Fields : StandaloneCreatePost(content)
    \/ StandaloneGetPostData
    \/ \E c \in Clients, data \in Messages : StandaloneMessage(c, data)

StandaloneSpec == Init /\ [][StandaloneNext]_vars

----------------------------------------------------------------------------
(* The claims *)

\* the outcome a request's timer delivers
IsTimedOut(v) == v.success = "false" /\ v.error \in {TimeoutError(k, t) : k \in Kinds, t \in ExecTimeouts}

\* C1: a request's callback is called at most once, whichever of the completion
\* messages, its timer and the cleanup come first; once it has been called the
\* request is in the table no more and its timer is armed no more, so a later
\* attempt finds nothing to resolve.
C1_AtMostOneOutcome ==
    \A id \in Ids :
        /\ calls[id] <= 1
        /\ calls[id] = 1 => (id \notin DOMAIN pendingRequests /\ timer[id].state # "armed")

\* the 80 s timer has just won against a cleanup that is due and finds the request
\* stale, while a client is connected that may still send a completion
C1_Witness ==
    /\ httpOut.by = "timer"
    /\ httpOut.error = "Request timed out after 80000ms"
    /\ calls[httpOut.id] = 1
    /\ nextSweep <= now
    /\ OpenClients # {}

\* C2: every request in the pending table is eventually answered and leaves the
\* table, also when no client ever replies and all clients disconnect (timers,
\* the cleanup interval and promise continuations being run).
C2_EventuallyAnswered ==
    \A id \in Ids : (id \in DOMAIN pendingRequests) ~> (promise[id].state = "done" /\ id \notin DOMAIN pendingRequests)

\* a request answered by its timer or the cleanup while no client is registered
C2_Witness ==
    /\ httpOut.by \in {"timer", "reaper"}
    /\ httpOut.status = 500
    /\ wsClients = {}
    /\ promise[httpOut.id].state = "done"

\* C3: an id is in the pending table exactly while its caller's promise is
\* pending: calling the callback and deleting the entry are one step.
C3_InTableIffUnresolved ==
    \A id \in Ids : (id \in DOMAIN pendingRequests) <=> (promise[id].state = "pending")

\* one request has just been resolved while another is still in the table
C3_Witness ==
    \E id \in Ids :
        /\ promise[id].state = "settled"
        /\ calls[id] = 1
        /\ pendingRequests # NoPending

\* C4: a valid command dispatched while no client is registered is answered at
\* once with 503: no entry, no timer, no broadcast, no post stored.
C4_NoClientFailsFast ==
    [][(/\ wsClients = {}
        /\ \E kind \in Kinds, field \in Fields, t \in ExecTimeouts :
              ~(RequiresField(kind) /\ ~Truthy(field)) /\ Dispatch(kind, field, t))
          => /\ httpOut'.status = 503
             /\ httpOut'.id = nextId
             /\ promise'[nextId].state = "done"
             /\ UNCHANGED <<pendingRequests, timer, calls, postDataStore>>
             /\ wsOut' = {}]_vars

\* a 503 has just been sent while an earlier request is still pending
C4_Witness ==
    /\ httpOut.status = 503
    /\ wsClients = {}
    /\ pendingRequests # NoPending

\* C5 (as claimed): a request resolved by a request_complete message is answered
\* with success, whatever data.result holds.
C5_CompleteSucceeds ==
    /\ \A id \in Ids : (promise[id].state = "settled" /\ promise[id].by = "request_complete")
                         => promise[id].value.success = "true"
    /\ httpOut.by = "request_complete" => (httpOut.status = 200 /\ httpOut.success = "true")

\* C6: a request_failed message for a pending id settles the caller's promise with
\* { success: false, error: data.error }, removes the entry, and the caller is
\* answered 500 with that same error.
C6_FailedVerbatim ==
    [][\A id \in Ids :
          /\ (promise[id].state = "pending" /\ promise'[id].state = "settled" /\ promise'[id].by = "request_failed")
             => /\ promise'[id].value = Obj("false", promise'[id].msg.error, Undef)
                /\ promise'[id].msg.requestId = id
                /\ id \notin DOMAIN pendingRequests'
          /\ (promise[id].state = "settled" /\ promise[id].by = "request_failed" /\ promise'[id].state = "done")
             => /\ httpOut'.id = id
                /\ httpOut'.status = 500
                /\ httpOut'.success = "false"
                /\ httpOut'.error = promise[id].msg.error]_vars

\* the caller has just been answered with the error the client reported
C6_Witness ==
    /\ httpOut.by = "request_failed"
    /\ httpOut.status = 500
    /\ httpOut.error = "boom"
    /\ httpOut.id \notin DOMAIN pendingRequests

\* C7: a request_complete or request_failed whose id is not in the pending table
\* changes nothing: the table, the timers, the promises, the callback counts and
\* the registry stay as they are and nothing is sent.
C7_UnknownIdNoOp ==
    [][\/ /\ UNCHANGED <<pendingRequests, timer, promise, calls, wsClients, readyState, postDataStore>>
          /\ httpOut' = NoResponse
          /\ wsOut' = {}
       \/ ~(\E data \in Messages :
                /\ data.type \in {"request_complete", "request_failed"}
                /\ data.requestId \notin DOMAIN pendingRequests
                /\ \E c \in Clients : OnMessage(c, data))]_vars

\* the state a stale completion arrives in and leaves: one request answered,
\* another still pending, a client connected, nothing sent
C7_Witness ==
    \E id \in Ids :
        /\ promise[id].state = "done"
        /\ calls[id] = 1
        /\ pendingRequests # NoPending
        /\ OpenClients # {}
        /\ wsOut = {}
        /\ httpOut = NoResponse

\* C8 (as claimed): a request that leaves the table without a completion message
\* does so by its own timer, at its deadline, with the timed-out outcome.
C8_TimeoutAtDeadline ==
    [][\A id \in Ids :
          (id \in DOMAIN pendingRequests /\ id \notin DOMAIN pendingRequests'
             /\ promise'[id].by \notin {"request_complete", "request_failed"})
          => /\ promise'[id].by = "timer"
             /\ timer[id].expiry <= now
             /\ IsTimedOut(promise'[id].value)]_vars

CompletionFor(id) == [type |-> "request_complete", requestId |-> id, result |-> Obj(Undef, Undef, "r1"), error |-> Undef]

\* C10: the close of a client, the last one included, leaves the pending table,
\* the timers, the promises and the callback counts as they are; and while a
\* request is pending, a completion from any client connected at that moment,
\* whether or not it was connected at dispatch, resolves it.
C10_CloseKeepsPending ==
    /\ [][\A c \in Clients : OnClose(c) => UNCHANGED <<pendingRequests, timer, promise, calls>>]_vars
    /\ [](\A id \in DOMAIN pendingRequests : \A c \in Clients :
            (NoMicrotask /\ readyState[c] # "CLOSED")
            => ENABLED (/\ OnMessage(c, CompletionFor(id))
                        /\ promise'[id].state = "settled"
                        /\ promise'[id].by = "request_complete"))

\* every client has closed and a request dispatched before is still pending, its
\* timer armed
C10_Witness ==
    /\ wsClients = {}
    /\ \E id \in DOMAIN pendingRequests : timer[id].state = "armed" /\ promise[id].state = "pending"

\* the commands among the messages a step sends
Commands(out) == {m \in out : m.type \in Kinds}

\* C11: a command is sent only in the step that dispatches it, once to each client
\* that is registered and OPEN in that step and to no other client; no later step
\* sends it again, so a client that connects while the request is pending never
\* receives it.
C11_BroadcastOnce ==
    [][/\ \A m \in Commands(wsOut') :
              /\ m.requestId = nextId
              /\ nextId' = nextId + 1
              /\ m.requestId \in DOMAIN pendingRequests' \ DOMAIN pendingRequests
              /\ m.to \in wsClients
              /\ readyState[m.to] = "OPEN"
       /\ \A id \in DOMAIN pendingRequests' \ DOMAIN pendingRequests :
              \A c \in Clients :
                  (c \in wsClients /\ readyState[c] = "OPEN")
                  => Cardinality({m \in Commands(wsOut') : m.to = c /\ m.requestId = id}) = 1
       /\ \A c \in Clients : (c \notin wsClients /\ c \in wsClients') => Commands(wsOut') = {}]_vars

\* a second command has just been sent to both clients while the first request,
\* dispatched before, is still pending
C11_Witness ==
    /\ {m.to : m \in Commands(wsOut)} = Clients
    /\ Cardinality(Commands(wsOut)) = MaxClients
    /\ \A m \in Commands(wsOut) : m.requestId = 2
    /\ 1 \in DOMAIN pendingRequests

\* something of request id changes in the step
Touched(id) ==
    \/ promise'[id] # promise[id]
    \/ timer'[id] # timer[id]
    \/ calls'[id] # calls[id]
    \/ (id \in DOMAIN pendingRequests) # (id \in DOMAIN pendingRequests')

\* C12: overlapping requests have different ids and each is touched only by what
\* bears its own id: its dispatch, a message with its requestId, its own timer when
\* due, a sweep that finds it stale itself, and its own response; the outcome is
\* computed from the message with its id, and the caller is answered from that
\* outcome, in whatever order the completions arrive.
C12_Independent ==
    [][\A id \in Ids :
          Touched(id) =>
            \/ /\ nextId = id
               /\ nextId' = id + 1
               /\ id \notin DOMAIN pendingRequests
            \/ /\ promise[id].state = "pending"
               /\ promise'[id].state = "settled"
               /\ id \notin DOMAIN pendingRequests'
               /\ \/ /\ promise'[id].by = "request_complete"
                     /\ promise'[id].msg.type = "request_complete"
                     /\ promise'[id].msg.requestId = id
                     /\ promise'[id].value = Spread(Obj("true", Undef, Undef), promise'[id].msg.result)
                  \/ /\ promise'[id].by = "request_failed"
                     /\ promise'[id].msg.type = "request_failed"
                     /\ promise'[id].msg.requestId = id
                     /\ promise'[id].value = Obj("false", promise'[id].msg.error, Undef)
                  \/ /\ promise'[id].by = "timer"
                     /\ timer[id].state = "armed"
                     /\ timer[id].expiry <= now
                  \/ /\ promise'[id].by = "reaper"
                     /\ now - pendingRequests[id].timestamp > StaleAge
            \/ /\ promise[id].state = "settled"
               /\ promise'[id].state = "done"
               /\ httpOut'.id = id
               /\ httpOut'.by = promise[id].by
               /\ (httpOut'.status = 200 /\ promise[id].shape = "result")
                    => httpOut'.result = promise[id].value.result]_vars

\* before any timer or sweep can have run, the first request is answered from its
\* completion after the second, dispatched later, has already been answered
C12_Witness ==
    /\ now = 0
    /\ httpOut.id = 1
    /\ httpOut.by = "request_complete"
    /\ httpOut.status = 200
    /\ promise[2].state = "done"
    /\ calls[2] = 1

\* a response as the frontend reads it (response.ok && result.success): succeeded
Succeeded(r) == r.status = 200 /\ r.success = "true"

\* a response as the frontend reads it: failed, an error status and no success
Failed(r) == r.status \in {400, 500, 503} /\ r.success # "true"

\* C13: an endpoint invocation responds exactly once, in the step that ends it, and
\* the response is a success (200, success true) or a failure (400, 500 or 503, no
\* success); an exception thrown in the handler is caught and answered 500 with
\* its message, so the invocation ends with a response all the same.
C13_OneUniformResponse ==
    [][/\ \A id \in Ids :
              /\ (promise[id].state # "done" /\ promise'[id].state = "done")
                 => (httpOut'.id = id /\ (Succeeded(httpOut') \/ Failed(httpOut')))
              /\ (promise[id].state = "done")
                 => (promise'[id].state = "done" /\ httpOut'.id # id)
              /\ (/\ promise[id].state = "settled"
                  /\ promise'[id].state = "done"
                  /\ Truthy(promise[id].value.success)
                  /\ promise[id].shape = "message"
                  /\ promise[id].content = NotAString)
                 => (/\ httpOut'.id = id
                     /\ httpOut'.status = 500
                     /\ httpOut'.error = "content.substring is not a function")
       /\ (httpOut'.id \in Ids)
          => (promise[httpOut'.id].state # "done" /\ promise'[httpOut'.id].state = "done")]_vars

\* the handler of a post whose content is a number has thrown after the completion
\* arrived, and its catch block has answered
C13_Witness ==
    /\ httpOut.status = 500
    /\ httpOut.error = "content.substring is not a function"
    /\ httpOut.by = "request_complete"
    /\ promise[httpOut.id].state = "done"

\* C14: whenever a status response is sent, its connectedClients is the size of the
\* registry and its pendingRequests the size of the pending table, the step that
\* sent it has changed neither of them nor a timer, a promise or the post store,
\* and the query is answered in every state in which the server takes a request.
C14_StatusReadOnly ==
    /\ [][httpOut'.connectedClients # -1
            => /\ httpOut'.connectedClients = Cardinality(wsClients)
               /\ httpOut'.pendingRequests = Cardinality(DOMAIN pendingRequests)
               /\ httpOut'.totalPosts = Len(postDataStore)
               /\ httpOut'.status = 200
               /\ wsOut' = {}
               /\ UNCHANGED <<now, nextSweep, wsClients, readyState, pendingRequests, timer, promise, calls,
                              postDataStore, nextId>>]_vars
    /\ [](NoMicrotask => ENABLED Status)

\* the status has just been reported while a request is pending and the only
\* registered client is closing
C14_Witness ==
    /\ httpOut.connectedClients = 1
    /\ httpOut.pendingRequests = 1
    /\ \E c \in wsClients : readyState[c] = "CLOSING"
    /\ \E id \in DOMAIN pendingRequests : timer[id].state = "armed"

\* C15 (as claimed): the cleanup resolves as expired only a request whose own
\* deadline, the expiry of its timer, has passed.
C15_SweepOnlyPastDeadline ==
    [][\A id \in Ids :
          (promise[id].state = "pending" /\ promise'[id].state = "settled" /\ promise'[id].by = "reaper")
          => timer[id].expiry <= now]_vars

\* C16: a request's timer is armed exactly while its id is in the pending table:
\* armed with the insert, gone with the entry, whichever handler removes it; an
\* armed timer belongs to a pending promise and was armed when the entry was made.
C16_TimerArmedIffPending ==
    \A id \in Ids :
        /\ (timer[id].state = "armed") <=> (id \in DOMAIN pendingRequests)
        /\ timer[id].state = "armed"
           => /\ promise[id].state = "pending"
              /\ calls[id] = 0
              /\ timer[id].expiry > pendingRequests[id].timestamp

\* the cleanup has just expired two requests before their timers were due (both
\* have a timeout of 120 s): neither is in the table and neither timer is armed
C16_Witness ==
    /\ now < 12
    /\ pendingRequests = NoPending
    /\ \A id \in Ids :
          /\ promise[id].state = "settled"
          /\ promise[id].by = "reaper"
          /\ timer[id].state = "none"

\* C17: the timer of a request is armed in the step that inserts it, for the time
\* of the insert plus the timeout of its kind: 30 s (3 ticks) for new_post and
\* navigate, 10 s (1 tick) for show_alert, capture_dom and capture_screenshot, and
\* for execute the timeout the caller supplied, or 30 s when it supplied none or 0.
C17_TimeoutPerKind ==
    [][(nextId' = nextId + 1 /\ nextId \in DOMAIN pendingRequests')
          => \A kind \in Kinds, field \in Fields, t \in ExecTimeouts :
                Dispatch(kind, field, t)
                => /\ timer'[nextId].state = "armed"
                   /\ pendingRequests'[nextId].timestamp = now
                   /\ timer'[nextId].expiry =
                        now + (CASE kind \in {"new_post", "navigate"} -> 3
                                 [] kind \in {"show_alert", "capture_dom", "capture_screenshot"} -> 1
                                 [] kind = "execute" -> IF t = 0 THEN 3 ELSE t)]_vars

\* two requests inserted in the same instant: one with a timer of 10 s, the other
\* with the 80 s its caller supplied
C17_Witness ==
    \E id \in DOMAIN pendingRequests, other \in DOMAIN pendingRequests :
        /\ pendingRequests[id].timestamp = pendingRequests[other].timestamp
        /\ timer[id].expiry = pendingRequests[id].timestamp + 1
        /\ timer[other].expiry = pendingRequests[other].timestamp + 8

\* C18: the broadcast of a dispatch reaches exactly the registered clients whose
\* readyState is OPEN; the others are skipped, stay registered and keep their
\* readyState, the dispatch goes on to await its promise, and while requests are
\* pending and a registered client is not OPEN a further dispatch is taken and
\* registered.
C18_BroadcastSkipsNotOpen ==
    /\ [][\A id \in DOMAIN pendingRequests' \ DOMAIN pendingRequests :
              /\ {m.to : m \in {x \in wsOut' : x.requestId = id}} = {c \in wsClients : readyState[c] = "OPEN"}
              /\ wsClients' = wsClients
              /\ readyState' = readyState
              /\ promise'[id].state = "pending"
              /\ httpOut' = NoResponse]_vars
    /\ []((NoMicrotask /\ nextId <= MaxReq /\ now + Horizon <= MaxTime /\ wsClients # {})
            => ENABLED (Dispatch("show_alert", "hello", 0) /\ nextId \in DOMAIN pendingRequests'))

\* a command has just gone to the open client and not to the registered client
\* that is closing, while an earlier request is still pending
C18_Witness ==
    /\ \E m \in wsOut : m.type \in Kinds /\ m.requestId = 2
    /\ \E c \in wsClients : readyState[c] = "CLOSING" /\ \A m \in wsOut : m.to # c
    /\ 1 \in DOMAIN pendingRequests
    /\ 2 \in DOMAIN pendingRequests

\* C19 (as claimed): after the close event or the error event of a client, the
\* client is in the registry no more.
C19_RemovedOnCloseOrError ==
    [][\A c \in Clients : (OnClose(c) \/ OnError(c)) => c \notin wsClients']_vars

\* the messages that cannot be parsed, have no known type, or have no requestId
Malformed == {data \in Messages : Throws(data) \/ data.type \in {"test", Undef} \/ data.requestId = NoId}

\* C20: a message that cannot be parsed, has no known type or has no requestId is
\* handled by the message handler of every registered client and changes nothing:
\* the table, the timers, the promises, the registry and the readyState stay as
\* they are, nothing is sent to a client and no caller is answered.
C20_MalformedDropped ==
    /\ [][\/ /\ UNCHANGED <<pendingRequests, timer, promise, calls, wsClients, readyState, postDataStore, nextId>>
              /\ wsOut' = {}
              /\ httpOut' = NoResponse
           \/ ~(\E data \in Malformed : \E c \in Clients : OnMessage(c, data))]_vars
    /\ [](\A c \in Clients : (NoMicrotask /\ readyState[c] # "CLOSED") => \A data \in Malformed : ENABLED OnMessage(c, data))

\* the state a malformed message arrives in and leaves: two requests pending with
\* their timers armed, the sender registered, nothing sent
C20_Witness ==
    /\ DOMAIN pendingRequests = Ids
    /\ \A id \in Ids : timer[id].state = "armed" /\ promise[id].state = "pending"
    /\ \E c \in wsClients : readyState[c] = "OPEN"
    /\ wsOut = {}
    /\ httpOut = NoResponse

\* the get_latest_post message
GetLatestPost == [type |-> "get_latest_post", requestId |-> 0, result |-> EmptyObj, error |-> Undef]

\* C21: a get_latest_post message is answered with one post_data message, sent to
\* the client the message came from and to no other, carrying the latest stored
\* post, or null when the store is empty (a sender that is no longer OPEN gets
\* nothing); the pending table, the timers, the promises, the callback counts, the
\* registry and the post store stay as they are and no caller is answered.
C21_LatestPostAnswered ==
    /\ [][\A c \in Clients :
              OnMessage(c, GetLatestPost)
              => /\ wsOut' = IF readyState[c] = "OPEN"
                             THEN {[to |-> c, type |-> "post_data", requestId |-> 0,
                                    data |-> IF postDataStore = <<>> THEN "null"
                                             ELSE postDataStore[Len(postDataStore)]]}
                             ELSE {}
                 /\ httpOut' = NoResponse
                 /\ UNCHANGED <<pendingRequests, timer, promise, calls, wsClients, readyState, postDataStore, nextId>>]_vars
    /\ [](\A c \in Clients : (NoMicrotask /\ readyState[c] = "OPEN")
            => ENABLED (OnMessage(c, GetLatestPost) /\ wsOut' # {}))

\* the second of two different posts has just been sent to the client that asked,
\* the other client is open too, and a request is pending with its timer armed
C21_Witness ==
    /\ Len(postDataStore) = 2
    /\ postDataStore[1] # postDataStore[2]
    /\ \E c \in Clients :
           /\ wsOut = {[to |-> c, type |-> "post_data", requestId |-> 0, data |-> postDataStore[2]]}
           /\ \A k \in Clients : readyState[k] = "OPEN"
    /\ \E id \in DOMAIN pendingRequests : timer[id].state = "armed"

C23_RegisteredIsSent ==
    [][\A id \in Ids : (id \in DOMAIN pendingRequests' /\ id \notin DOMAIN pendingRequests)
            => \E m \in wsOut' : m.requestId = id]_vars

\* the completions and failures that name the request id
RepliesFor(id) == {data \in Messages : data.type \in {"request_complete", "request_failed"} /\ data.requestId = id}

\* C24: the first reply processed for a pending id alone decides the outcome: it
\* settles the request with its own type and payload (a request_failed gives the
\* failed outcome with that message's error), removes the entry and clears the
\* timer, and the response the caller then gets is the one of that reply; a reply
\* for an id that is no longer pending, of either type and from any client, changes
\* neither the outcome nor the table, the timers or the callback counts, and no
\* second response is sent.
C24_FirstReplyDecides ==
    /\ [](\A id \in DOMAIN pendingRequests : \A c \in Clients :
            (NoMicrotask /\ readyState[c] # "CLOSED")
            => \A data \in RepliesFor(id) : ENABLED (OnMessage(c, data) /\ id \notin DOMAIN pendingRequests'))
    /\ [][\A id \in DOMAIN pendingRequests \ DOMAIN pendingRequests' :
            \A data \in RepliesFor(id) :
                (\E c \in Clients : OnMessage(c, data))
                => /\ promise'[id] = [promise[id] EXCEPT
                                        !.state = "settled", !.by = data.type, !.msg = data,
                                        !.value = IF data.type = "request_failed"
                                                  THEN Obj("false", data.error, Undef)
                                                  ELSE Spread(Obj("true", Undef, Undef), data.result)]
                   /\ timer'[id] = NoTimer
                   /\ calls'[id] = calls[id] + 1]_vars
    /\ [][\A id \in Ids :
            (promise[id].state = "settled" /\ promise[id].by \in {"request_complete", "request_failed"})
            => /\ promise'[id] = DonePromise
               /\ httpOut'.id = id
               /\ httpOut'.by = promise[id].by
               /\ promise[id].by = "request_failed"
                    => /\ httpOut'.status = 500
                       /\ httpOut'.success = "false"
                       /\ httpOut'.error = promise[id].msg.error]_vars
    /\ [][\/ /\ UNCHANGED <<now, nextSweep, wsClients, readyState, pendingRequests, timer, promise, calls,
                            postDataStore, nextId>>
             /\ httpOut' = NoResponse
             /\ wsOut' = {}
          \/ ~(\E id \in Ids :
                  /\ promise[id].state = "done"
                  /\ \E data \in RepliesFor(id) : \E c \in Clients : OnMessage(c, data))]_vars

\* a failure has been processed first for a request that was sent to two open
\* clients: the request is settled as failed and its continuation has not run yet
C24_Witness ==
    \E id \in Ids :
        /\ promise[id].state = "settled"
        /\ promise[id].by = "request_failed"
        /\ promise[id].msg.error = "boom"
        /\ calls[id] = 1
        /\ OpenClients = Clients

\* C25: a create-post, show-alert, execute or navigate command whose required field
\* is missing is answered 400 with a validation error, with or without a client in
\* the registry: no entry is stored, no timer is armed, nothing is sent to a client
\* and the post store stays as it is.
C25_MissingFieldRejected ==
    [][\A kind \in {"new_post", "show_alert", "execute", "navigate"} : \A t \in ExecTimeouts :
          Dispatch(kind, Undef, t)
          => /\ httpOut' = [NoResponse EXCEPT !.id = nextId, !.status = 400, !.error = "required"]
             /\ wsOut' = {}
             /\ UNCHANGED <<pendingRequests, timer, postDataStore, calls, wsClients, readyState>>
             /\ promise'[nextId].state = "done"]_vars

\* a command without its field has been rejected while no client is registered, after
\* an earlier create-post was accepted
C25_Witness ==
    /\ httpOut.status = 400
    /\ httpOut.error = "required"
    /\ httpOut.id = 2
    /\ wsClients = {}
    /\ Len(postDataStore) = 1

\* C26: the post store only grows, by one post at its end, and only in the step in
\* which a create-post that passed validation and the client check is registered,
\* with that request's content; every such create-post appends; a rejected command
\* leaves the store as it is, and so does every timeout, expiry, failure and
\* completion; get_post_data and get_latest_post answer with the last post of the
\* store, or null when the store is empty.
C26_PostStoreAppendOnly ==
    [][/\ \/ postDataStore' = postDataStore
          \/ /\ Len(postDataStore') = Len(postDataStore) + 1
             /\ SubSeq(postDataStore', 1, Len(postDataStore)) = postDataStore
             /\ Truthy(postDataStore'[Len(postDataStore')])
             /\ wsClients # {}
             /\ nextId \in DOMAIN pendingRequests' \ DOMAIN pendingRequests
             /\ promise'[nextId].content = postDataStore'[Len(postDataStore')]
       /\ \A id \in DOMAIN pendingRequests' \ DOMAIN pendingRequests :
             promise'[id].content # Undef => postDataStore' = Append(postDataStore, promise'[id].content)
       /\ httpOut'.status \in {400, 503} => postDataStore' = postDataStore
       /\ GetPostData => httpOut'.data = IF postDataStore = <<>> THEN "null" ELSE postDataStore[Len(postDataStore)]
       /\ \A m \in wsOut' : m.type = "post_data"
             => m.data = IF postDataStore = <<>> THEN "null" ELSE postDataStore[Len(postDataStore)]]_vars

\* a create-post has just been answered by its timer, and its post is still the
\* last of the store, the one the two reads return
C26_Witness ==
    /\ httpOut.by = "timer"
    /\ httpOut.id = 1
    /\ httpOut.error = "Request timed out after 30 seconds"
    /\ nextId = 2
    /\ postDataStore = <<"hello">>
    /\ LatestPost = "hello"

\* C27: no entry is in the pending table more than 60 s + 30 s after its creation,
\* whatever the timeout of its request.
C27_NoEntryOlderThan90s ==
    \A id \in DOMAIN pendingRequests : now - pendingRequests[id].timestamp <= StaleAge + SweepInterval

\* an entry is 90 s old and still in the table: its request has a timeout of 120 s,
\* its timer is armed and not due, and the cleanup that is due now will remove it
C27_Witness ==
    \E id \in DOMAIN pendingRequests :
        /\ now - pendingRequests[id].timestamp = StaleAge + SweepInterval
        /\ timer[id].state = "armed"
        /\ timer[id].expiry = pendingRequests[id].timestamp + 12
        /\ nextSweep = now
        /\ id \in Stale

\* C28: whenever the CallTool handler of the MCP client returns, it returns a text
\* content item with a text, and no exception has left it; when the status check
\* failed, the text is the cannot-connect error and no tool endpoint was fetched;
\* an unknown tool name, a fetch that failed and a backend answer that is not a
\* success are returned as an error text.
C28_AlwaysTextResult ==
    mcpClient.pc = "returned"
    => /\ mcpClient.result.type = "text"
       /\ mcpClient.result.text # Undef
       /\ ~CheckBackend(mcpClient.status)
            => /\ mcpClient.result.text = CannotConnect
               /\ mcpClient.fetched = {"/api/status"}
       /\ (CheckBackend(mcpClient.status) /\ mcpClient.name \notin Tools)
            => /\ mcpClient.result.text = "Error executing unknown_tool: Unknown tool: unknown_tool"
               /\ mcpClient.fetched = {"/api/status"}
       /\ mcpClient.response.transport \in {"rejected", "not_json"}
            => mcpClient.result.text \in
                  {"Error executing " \o mcpClient.name \o ": " \o m :
                      m \in {"fetch failed", "Unexpected token < in JSON at position 0"}}
       /\ (/\ mcpClient.response.transport = "ok"
           /\ mcpClient.name # "get_post_data"
           /\ ~(mcpClient.response.status \in 200..299 /\ mcpClient.response.body.success = "true"))
            => mcpClient.result.text =
                  "Error: " \o (IF mcpClient.response.body.error # Undef
                                THEN mcpClient.response.body.error
                                ELSE Fallback(mcpClient.name))

\* C29: when the standalone server's message handler is given a message that does
\* not parse, or one of a shape it does not recognize, no exception leaves the
\* handler, the server keeps running, and the registry and the post store are
\* as before.
C29_BadMessageDropped ==
    [][\A c \in Clients : \A data \in Messages :
          (data.type # "get_latest_post" /\ StandaloneMessage(c, data))
          => /\ standalone'.escaped = Undef
             /\ standalone'.running
             /\ standalone'.wsClients = standalone.wsClients
             /\ standalone'.postDataStore = standalone.postDataStore]_vars

====
